---- MODULE Spec2Model ----
(***************************************************************************)
(* The report cache of src/lib/impact-reports.ts: the module-level list    *)
(* `reports`, its lazy population by fetchReports (claims, then one        *)
(* Promise.all task per claim: metadata, editorial list, funding amount),  *)
(* the accessors fetchReportBySlug / fetchReportByHCId / getReports and    *)
(* the mutex-guarded updateFundedAmount.                                   *)
(*                                                                         *)
(* Every async function is cut at its awaits: the code between two awaits  *)
(* runs to completion on the single JavaScript thread, so it is one        *)
(* action.  A remote call is issued in the action that reaches the await   *)
(* and answered (with data or with a failure) by a later action.           *)
(***************************************************************************)
EXTENDS Integers, Sequences, FiniteSets

(* ---------------------------------------------------------------- bounds *)

\* Number of calls of the exported functions that may be in flight at once.
NCalls == 2
\* Longest claim list the indexer answers with.
MaxClaims == 2
\* Number of updateFundedAmount calls issued in one behaviour.
MaxUpdates == 3

(* ------------------------------------------------------ the remote world *)

\* `let reports: Report[] | null = null`: 0 is null, n > 0 is the n-th list
\* object allocated by a population (list identity).
NULL == 0

Calls == 1..NCalls

\* Claim ids the indexer knows.  The uri of a claim is tied to its id.
ClaimIds == {"c1", "c2", "c3"}

\* metadata.name of a claim (IPFS metadata is content-addressed: fixed per uri).
MetadataName(id) ==
  CASE id = "c1" -> "t1"
    [] id = "c2" -> "t2"
    [] OTHER     -> "tX"

\* The editorial list getCMSReports() answers with.
CMSReports ==
  << [id |-> "cms1", title |-> "t1", slug |-> "s1"],
     [id |-> "cms2", title |-> "t2", slug |-> "s2"] >>

\* Amounts getFundedAmountByHCId may answer with.
FundedAmounts == {50}

\* Arguments of updateFundedAmount.
UpdateIds == {"c1", "c9"}
Amounts == {25}

\* Arguments of the accessors.
Slugs == {"s1", "s9"}
HCIds == {"c2", "c9"}

\* Every claim list of at most MaxClaims claims (ids may repeat: the indexer's
\* answer is not checked for uniqueness).
ClaimLists == UNION {[1..n -> ClaimIds] : n \in 0..MaxClaims}

(* ------------------------------------------------------------- the state *)

VARIABLES
  owned,         \* the claims the indexer holds for the owner address, in its order
  reports,       \* the module variable `reports`: NULL or a list identity
  lists,         \* heap of list objects: lists[n] is the content of list n
  reportsMutex,  \* [holder: call holding the lock or 0, queue: waiting calls]
  calls,         \* the calls in flight, one record per slot
  built,         \* per list: the claims and task completion order it was built
                 \* from, and the fundedSoFar values it was stored with
  credited,      \* per id: total amount of the updates begun while the cache
                 \* held a report of that id
  nUpdates       \* number of updateFundedAmount calls issued

vars == <<owned, reports, lists, reportsMutex, calls, built, credited, nUpdates>>

(* ------------------------------------------------------- values and heap *)

\* What a call gives back: a list (by identity), a fresh empty array, one
\* Report of a list, nothing (void), or a thrown Error.  An Error is the
\* sequence of its message parts, outermost wrapper first.
NoRet == [kind |-> "none", ref |-> 0, idx |-> 0, err |-> <<>>]
ListRet(l) == [kind |-> "list", ref |-> l, idx |-> 0, err |-> <<>>]
EmptyRet == [kind |-> "empty", ref |-> 0, idx |-> 0, err |-> <<>>]
ReportRet(l, i) == [kind |-> "report", ref |-> l, idx |-> i, err |-> <<>>]
VoidRet == [kind |-> "void", ref |-> 0, idx |-> 0, err |-> <<>>]
Throw(e) == [kind |-> "error", ref |-> 0, idx |-> 0, err |-> e]

\* `throw new Error(`<tag>: ${error}`)`: the caught error's text is embedded.
Wrap(tag, e) == <<tag>> \o e

NoReport ==
  [hypercertId |-> "", title |-> "", cmsId |-> "", slug |-> "", fundedSoFar |-> 0]

\* A call slot that runs nothing.  Of a call it holds the function called
\* (op), where it stands (pc), what it read of the owner address (env), its
\* arguments (arg, amount), the value of `reports` when it began (onCache), the
\* locals of fetchReports (claims, tasks, with the order in which the tasks
\* fulfilled), what fetchReports gave an accessor (fret), what the call
\* returned (ret) and the remote calls issued for it (issued).
IdleCall ==
  [op |-> "none", pc |-> "idle", env |-> TRUE, arg |-> "", amount |-> 0,
   onCache |-> NULL,
   claims |-> <<>>, tasks |-> <<>>, order |-> <<>>,
   fret |-> NoRet, ret |-> NoRet, issued |-> {}]

\* Array.prototype.find: index of the first element satisfying the test, 0 if none.
FindIndex(seq, Test(_)) ==
  IF \E i \in 1..Len(seq) : Test(seq[i])
  THEN CHOOSE i \in 1..Len(seq) :
         Test(seq[i]) /\ \A j \in 1..(i - 1) : ~Test(seq[j])
  ELSE 0

\* CMSFind falling back to the first editorial record when no title matches.
CMSFindFallback(name) ==
  LET T(r) == r.title = name
  IN  IF FindIndex(CMSReports, T) = 0 THEN 1 ELSE FindIndex(CMSReports, T)

\* fromCMS.find((cmsReport) => cmsReport.title === metadata.name)
CMSFind(name) == LET T(r) == r.title = name IN FindIndex(CMSReports, T)

\* reports.find((report) => report.slug === slug)
FindBySlug(rs, slug) == LET T(r) == r.slug = slug IN FindIndex(rs, T)

\* reports.find((report) => report.hypercertId === hypercertId)
FindByHCId(rs, id) == LET T(r) == r.hypercertId = id IN FindIndex(rs, T)

\* The Report object literal of one claim.
MakeReport(id, cms, funded) ==
  [hypercertId |-> id, title |-> MetadataName(id), cmsId |-> cms.id,
   slug |-> cms.slug, fundedSoFar |-> funded]

\* The tasks' results in the order in which the tasks fulfilled.
PromiseAllByCompletion(k) ==
  [i \in 1..Len(k.tasks) |-> k.tasks[k.order[i]].report]

\* Promise.all's value for call k: the tasks' results by position.
PromiseAll(k) == [i \in 1..Len(k.tasks) |-> k.tasks[i].report]

\* AddFunded with `=` for `+=`.
AddFundedOverwrite(rs, id, amount) ==
  LET T(r) == r.hypercertId = id
      j == FindIndex(rs, T)
  IN  IF j = 0 THEN rs
      ELSE [rs EXCEPT ![j].fundedSoFar = amount]

\* AddFunded crediting the first report when no report has the id.
AddFundedFallback(rs, id, amount) ==
  LET T(r) == r.hypercertId = id
      j == FindIndex(rs, T)
  IN  IF rs = <<>> THEN rs
      ELSE [rs EXCEPT ![IF j = 0 THEN 1 ELSE j].fundedSoFar = @ + amount]

\* AddFunded crediting every report that has the id.
AddFundedEvery(rs, id, amount) ==
  [i \in 1..Len(rs) |->
     IF rs[i].hypercertId = id
     THEN [rs[i] EXCEPT !.fundedSoFar = @ + amount]
     ELSE rs[i]]

\* `report.fundedSoFar += amount` on the found report, nothing if none.
AddFunded(rs, id, amount) ==
  LET j == FindByHCId(rs, id)
  IN  IF j = 0 THEN rs
      ELSE [rs EXCEPT ![j].fundedSoFar = @ + amount]

\* getReports always giving a fresh empty array.
getReportsEmpty == [kind |-> "empty", ref |-> 0, idx |-> 0, err |-> <<>>]

\* getReports(): the cache, or a fresh empty array.
getReports == IF reports # NULL THEN ListRet(reports) ELSE EmptyRet

\* Content of what getReports() returned.
Content(r) == IF r.kind = "list" THEN lists[r.ref] ELSE <<>>

(* ------------------------------------------------------------ call slots *)

\* A slot is free when its call has returned.
Free(c) == calls[c].pc \in {"idle", "done"}

\* A new call takes the lowest free slot (slots are interchangeable).
Begin(c) == Free(c) /\ \A d \in 1..(c - 1) : ~Free(d)

\* The slots once the call in slot c has taken a step to k.  What another call
\* returned stays in its slot only until some call takes its next step.
Stepped(c, k) ==
  [d \in Calls |->
     IF d = c THEN k
     ELSE IF calls[d].pc = "done" THEN IdleCall
     ELSE calls[d]]

\* fetchReports settles: its own caller gets the result, an accessor that
\* awaits it resumes with it.
Settle(k, r) ==
  IF k.op = "fetchReports"
  THEN [k EXCEPT !.pc = "done", !.ret = r,
                 !.claims = <<>>, !.tasks = <<>>, !.order = <<>>]
  ELSE [k EXCEPT !.pc = "lookup", !.fret = r,
                 !.claims = <<>>, !.tasks = <<>>, !.order = <<>>]

\* fetchReports without the cache check: every call fetches.
fetchReportsUncached(k) ==
  IF ~k.env THEN Settle(k, Throw(<<"OwnerAddressNotSet">>))
  ELSE [k EXCEPT !.pc = "claims", !.issued = @ \cup {"claims"}]

\* fetchReports with the cache check before the owner-address check.
fetchReportsCacheFirst(k) ==
  IF reports # NULL THEN Settle(k, ListRet(reports))
  ELSE IF ~k.env THEN Settle(k, Throw(<<"OwnerAddressNotSet">>))
  ELSE [k EXCEPT !.pc = "claims", !.issued = @ \cup {"claims"}]

\* fetchReports taking an empty cached list for an unpopulated cache
\* (`if (reports && reports.length)`).
fetchReportsNonEmptyOnly(k) ==
  IF ~k.env THEN Settle(k, Throw(<<"OwnerAddressNotSet">>))
  ELSE IF reports # NULL /\ lists[reports] # <<>>
       THEN Settle(k, ListRet(reports))
  ELSE [k EXCEPT !.pc = "claims", !.issued = @ \cup {"claims"}]

\* fetchReports up to its first await (lines 23-41).  k.env is what the call
\* reads from process.env.HC_OWNER_ADDRESS: set or not.
fetchReports(k) ==
  IF ~k.env THEN Settle(k, Throw(<<"OwnerAddressNotSet">>))
  ELSE IF reports # NULL THEN Settle(k, ListRet(reports))
  ELSE [k EXCEPT !.pc = "claims", !.issued = @ \cup {"claims"}]

\* A per-claim task rejects with e: Promise.all rejects with this first
\* rejection and the catch of fetchReports wraps and rethrows it (lines
\* 97-100), all in the microtasks of the failing answer.  The other tasks are
\* not cancelled, but Promise.all discards what they give and they touch no
\* module state: they leave the model here.
TaskReject(k, e) == Settle(k, Throw(Wrap("FailedToFetchReports", e)))

(* ------------------------------------------------------------------ Init *)

Init ==
  /\ owned \in ClaimLists
  /\ reports = NULL
  /\ lists = <<>>
  /\ reportsMutex = [holder |-> 0, queue |-> <<>>]
  /\ calls = [c \in Calls |-> IdleCall]
  /\ built = <<>>
  /\ credited = [id \in UpdateIds |-> 0]
  /\ nUpdates = 0

(* --------------------------------------------------------------- actions *)

\* A caller calls fetchReports().
FetchReportsCall(c) ==
  /\ Begin(c)
  /\ \E e \in BOOLEAN :
       calls' = Stepped(c,
         fetchReports([IdleCall EXCEPT !.op = "fetchReports", !.env = e,
                                       !.onCache = reports]))
  /\ UNCHANGED <<owned, reports, lists, reportsMutex, built, credited, nUpdates>>

\* A caller calls fetchReportBySlug(slug): runs fetchReports() and awaits it.
\* The slug is first read after the await: it is drawn there.
FetchReportBySlugCall(c) ==
  /\ Begin(c)
  /\ \E e \in BOOLEAN :
       calls' = Stepped(c,
         fetchReports([IdleCall EXCEPT !.op = "fetchReportBySlug", !.env = e,
                                       !.onCache = reports]))
  /\ UNCHANGED <<owned, reports, lists, reportsMutex, built, credited, nUpdates>>

\* A caller calls fetchReportByHCId(hypercertId); the id is drawn at its
\* first read, after the await.
FetchReportByHCIdCall(c) ==
  /\ Begin(c)
  /\ \E e \in BOOLEAN :
       calls' = Stepped(c,
         fetchReports([IdleCall EXCEPT !.op = "fetchReportByHCId", !.env = e,
                                       !.onCache = reports]))
  /\ UNCHANGED <<owned, reports, lists, reportsMutex, built, credited, nUpdates>>

\* indexer.claimsByOwner answers: the claims (one task per claim starts, each
\* asking for its metadata), or a failure, wrapped twice on its way out.
ClaimsResponse(c) ==
  /\ calls[c].pc = "claims"
  /\ \/ calls' = Stepped(c,
          [calls[c] EXCEPT !.pc = "all",
                    !.claims = owned,
                    !.tasks = [i \in 1..Len(owned) |->
                                 [st |-> "metadata", claim |-> owned[i],
                                  report |-> NoReport]],
                    !.issued = IF owned = <<>> THEN @ ELSE @ \cup {"metadata"}])
     \/ calls' = Stepped(c,
          Settle(calls[c], Throw(<<"FailedToFetchReports", "FailedToFetchClaims",
                            "IndexerError">>)))
  /\ UNCHANGED <<owned, reports, lists, reportsMutex, built, credited, nUpdates>>

\* storage.getMetadata answers for task i: the task goes on to ask for the
\* editorial list, or rejects with the wrapped failure.
MetadataResponse(c, i) ==
  /\ i \in 1..Len(calls[c].tasks)
  /\ calls[c].pc = "all"
  /\ calls[c].tasks[i].st = "metadata"
  /\ \/ calls' = Stepped(c,
          [calls[c] EXCEPT !.tasks[i].st = "cms", !.issued = @ \cup {"cms"}])
     \/ calls' = Stepped(c,
          TaskReject(calls[c], <<"FailedToFetchMetadata", "StorageError">>))
  /\ UNCHANGED <<owned, reports, lists, reportsMutex, built, credited, nUpdates>>

\* getCMSReports answers for task i: the task looks its title up and asks for
\* the funded amount, or rejects (no editorial record, or the call failed).
CMSResponse(c, i) ==
  /\ i \in 1..Len(calls[c].tasks)
  /\ calls[c].pc = "all"
  /\ calls[c].tasks[i].st = "cms"
  /\ \/ calls' = Stepped(c,
          IF CMSFind(MetadataName(calls[c].tasks[i].claim)) = 0
          THEN TaskReject(calls[c], <<"CMSContentNotFound">>)
          ELSE [calls[c] EXCEPT !.tasks[i].st = "funding",
                         !.issued = @ \cup {"funding"}])
     \/ calls' = Stepped(c, TaskReject(calls[c], <<"CMSError">>))
  /\ UNCHANGED <<owned, reports, lists, reportsMutex, built, credited, nUpdates>>

\* getFundedAmountByHCId answers for task i: the task fulfils with its Report,
\* or rejects.
FundingResponse(c, i) ==
  /\ i \in 1..Len(calls[c].tasks)
  /\ calls[c].pc = "all"
  /\ calls[c].tasks[i].st = "funding"
  /\ \/ \E a \in FundedAmounts :
          calls' = Stepped(c,
            [calls[c] EXCEPT !.tasks[i].st = "fulfilled",
                      !.tasks[i].report =
                         MakeReport(calls[c].tasks[i].claim,
                           CMSReports[CMSFind(MetadataName(calls[c].tasks[i].claim))],
                           a),
                      !.order = Append(@, i)])
     \/ calls' = Stepped(c, TaskReject(calls[c], <<"FundingError">>))
  /\ UNCHANGED <<owned, reports, lists, reportsMutex, built, credited, nUpdates>>

\* FetchReportsStore storing the reports resolved so far once one task has
\* fulfilled, instead of waiting for all of them.
FetchReportsStorePartial(c) ==
  /\ calls[c].pc = "all"
  /\ \E i \in 1..Len(calls[c].tasks) : calls[c].tasks[i].st = "fulfilled"
  /\ lists' = Append(lists,
       [i \in 1..Len(calls[c].order) |->
          calls[c].tasks[calls[c].order[i]].report])
  /\ reports' = Len(lists) + 1
  /\ built' = Append(built,
       [claims |-> calls[c].claims,
        order |-> calls[c].order,
        seed |-> [i \in 1..Len(calls[c].order) |->
                    calls[c].tasks[calls[c].order[i]].report.fundedSoFar],
        early |-> FALSE])
  /\ calls' = Stepped(c, Settle(calls[c], ListRet(Len(lists) + 1)))
  /\ UNCHANGED <<owned, reportsMutex, credited, nUpdates>>

\* FetchReportsStore keeping the list already cached when there is one: the
\* attempt that finishes second returns the first attempt's list.
FetchReportsStoreFirstWins(c) ==
  /\ calls[c].pc = "all"
  /\ \A i \in 1..Len(calls[c].tasks) : calls[c].tasks[i].st = "fulfilled"
  /\ IF reports # NULL
     THEN /\ calls' = Stepped(c, Settle(calls[c], ListRet(reports)))
          /\ UNCHANGED <<lists, reports, built>>
     ELSE /\ lists' = Append(lists, PromiseAll(calls[c]))
          /\ reports' = Len(lists) + 1
          /\ built' = Append(built,
               [claims |-> calls[c].claims,
                order |-> calls[c].order,
                seed |-> [i \in 1..Len(calls[c].tasks) |->
                            calls[c].tasks[i].report.fundedSoFar],
                early |-> FALSE])
          /\ calls' = Stepped(c, Settle(calls[c], ListRet(Len(lists) + 1)))
  /\ UNCHANGED <<owned, reportsMutex, credited, nUpdates>>

\* FetchReportsStore carrying the funding recorded in the cache it replaces
\* over to the new list.
FetchReportsStoreMerge(c) ==
  /\ calls[c].pc = "all"
  /\ \A i \in 1..Len(calls[c].tasks) : calls[c].tasks[i].st = "fulfilled"
  /\ lists' = Append(lists,
       [i \in 1..Len(calls[c].tasks) |->
          LET r == calls[c].tasks[i].report
              T(o) == o.hypercertId = r.hypercertId
              j == IF reports = NULL THEN 0 ELSE FindIndex(lists[reports], T)
          IN  IF j = 0 THEN r
              ELSE [r EXCEPT !.fundedSoFar = lists[reports][j].fundedSoFar]])
  /\ reports' = Len(lists) + 1
  /\ built' = Append(built,
       [claims |-> calls[c].claims,
        order |-> calls[c].order,
        seed |-> [i \in 1..Len(calls[c].tasks) |->
                    calls[c].tasks[i].report.fundedSoFar],
        early |-> FALSE])
  /\ calls' = Stepped(c, Settle(calls[c], ListRet(Len(lists) + 1)))
  /\ UNCHANGED <<owned, reportsMutex, credited, nUpdates>>

\* Promise.all fulfilled: `reports = await Promise.all(...)` stores the new
\* list and fetchReports returns it (lines 43, 93-96).
FetchReportsStore(c) ==
  /\ calls[c].pc = "all"
  /\ \A i \in 1..Len(calls[c].tasks) : calls[c].tasks[i].st = "fulfilled"
  /\ lists' = Append(lists, PromiseAll(calls[c]))
  /\ reports' = Len(lists) + 1
  /\ built' = Append(built,
       [claims |-> calls[c].claims,
        order |-> calls[c].order,
        seed |-> [i \in 1..Len(calls[c].tasks) |->
                    calls[c].tasks[i].report.fundedSoFar],
        early |-> FALSE])
  /\ calls' = Stepped(c, Settle(calls[c], ListRet(Len(lists) + 1)))
  /\ UNCHANGED <<owned, reportsMutex, credited, nUpdates>>

\* fetchReportBySlug without the not-found check: a miss returns undefined.
fetchReportBySlugUnchecked(k) ==
  IF k.fret.kind = "error"
  THEN Throw(Wrap("FailedToGetReportBySlug", k.fret.err))
  ELSE LET T(r) == r.slug = k.arg
       IN  ReportRet(k.fret.ref, FindIndex(lists[k.fret.ref], T))

\* fetchReportBySlug resumes after `await fetchReports()` (lines 113-122).
fetchReportBySlug(k) ==
  IF k.fret.kind = "error"
  THEN Throw(Wrap("FailedToGetReportBySlug", k.fret.err))
  ELSE LET j == FindBySlug(lists[k.fret.ref], k.arg)
       IN  IF j = 0
           THEN Throw(<<"FailedToGetReportBySlug", "SlugNotFound">>)
           ELSE ReportRet(k.fret.ref, j)

\* fetchReportByHCId resumes after `await fetchReports()` (lines 131-145).
fetchReportByHCId(k) ==
  IF k.fret.kind = "error"
  THEN Throw(Wrap("FailedToGetReportByHCId", k.fret.err))
  ELSE LET j == FindByHCId(lists[k.fret.ref], k.arg)
       IN  IF j = 0
           THEN Throw(<<"FailedToGetReportByHCId", "HCIdNotFound">>)
           ELSE ReportRet(k.fret.ref, j)

FetchReportBySlugResume(c, slug) ==
  /\ calls[c].pc = "lookup"
  /\ calls[c].op = "fetchReportBySlug"
  /\ calls' = Stepped(c,
       [calls[c] EXCEPT !.pc = "done", !.arg = slug,
                 !.ret = fetchReportBySlug([calls[c] EXCEPT !.arg = slug])])
  /\ UNCHANGED <<owned, reports, lists, reportsMutex, built, credited, nUpdates>>

FetchReportByHCIdResume(c, id) ==
  /\ calls[c].pc = "lookup"
  /\ calls[c].op = "fetchReportByHCId"
  /\ calls' = Stepped(c,
       [calls[c] EXCEPT !.pc = "done", !.arg = id,
                 !.ret = fetchReportByHCId([calls[c] EXCEPT !.arg = id])])
  /\ UNCHANGED <<owned, reports, lists, reportsMutex, built, credited, nUpdates>>

\* A caller calls getReports(): synchronous, done in the same step.
GetReportsCall(c) ==
  /\ Begin(c)
  /\ calls' = Stepped(c,
       [IdleCall EXCEPT !.op = "getReports", !.pc = "done",
                        !.onCache = reports, !.ret = getReports])
  /\ UNCHANGED <<owned, reports, lists, reportsMutex, built, credited, nUpdates>>

\* A caller calls updateFundedAmount(id, amount): reportsMutex.acquire() takes
\* the free lock at once, or queues the call (first come, first served).
UpdateFundedAmountCall(c, id, amount) ==
  /\ Begin(c)
  /\ nUpdates < MaxUpdates
  /\ nUpdates' = nUpdates + 1
  /\ credited' = IF reports # NULL /\ FindByHCId(lists[reports], id) # 0
                 THEN [credited EXCEPT ![id] = @ + amount]
                 ELSE credited
  /\ calls' = Stepped(c,
       [IdleCall EXCEPT !.op = "updateFundedAmount", !.arg = id,
                        !.amount = amount, !.onCache = reports,
                        !.pc = IF reportsMutex.holder = 0
                               THEN "locked" ELSE "waiting"])
  /\ reportsMutex' =
       IF reportsMutex.holder = 0
       THEN [reportsMutex EXCEPT !.holder = c]
       ELSE [reportsMutex EXCEPT !.queue = Append(@, c)]
  /\ UNCHANGED <<owned, reports, lists, built>>

\* release() that leaves the lock with the caller.
ReleaseNever(m) == m

\* release(): the lock goes to the first waiting call, or becomes free.
Release(m) ==
  IF m.queue = <<>>
  THEN [m EXCEPT !.holder = 0]
  ELSE [holder |-> Head(m.queue), queue |-> Tail(m.queue)]

\* UpdateFundedAmountCritical that starts the cache as an empty list when it
\* finds it unpopulated.
UpdateFundedAmountCriticalInit(c) ==
  /\ calls[c].pc = "locked"
  /\ reportsMutex.holder = c
  /\ IF reports = NULL
     THEN /\ lists' = Append(lists, <<>>)
          /\ reports' = Len(lists) + 1
          /\ built' = Append(built,
               [claims |-> owned, order |-> [i \in 1..Len(owned) |-> i],
                seed |-> <<>>, early |-> FALSE])
     ELSE /\ lists' = [lists EXCEPT ![reports] =
                         AddFunded(@, calls[c].arg, calls[c].amount)]
          /\ reports' = reports
          /\ built' = IF calls[c].onCache = NULL
                      THEN [built EXCEPT ![reports].early = TRUE]
                      ELSE built
  /\ reportsMutex' = Release(reportsMutex)
  /\ calls' = [d \in Calls |->
       IF d = c THEN [calls[c] EXCEPT !.pc = "done", !.ret = VoidRet]
       ELSE IF reportsMutex.queue # <<>> /\ d = Head(reportsMutex.queue)
       THEN [calls[d] EXCEPT !.pc = "locked"]
       ELSE Stepped(c, calls[c])[d]]
  /\ UNCHANGED <<owned, credited, nUpdates>>

\* The critical section of updateFundedAmount and the release (lines 234-242).
UpdateFundedAmountCritical(c) ==
  /\ calls[c].pc = "locked"
  /\ reportsMutex.holder = c
  /\ lists' = IF getReports.kind = "list"
              THEN [lists EXCEPT ![reports] =
                      AddFunded(@, calls[c].arg, calls[c].amount)]
              ELSE lists
  /\ built' = IF reports # NULL /\ calls[c].onCache = NULL
              THEN [built EXCEPT ![reports].early = TRUE]
              ELSE built
  /\ reportsMutex' = Release(reportsMutex)
  /\ calls' = [d \in Calls |->
       IF d = c THEN [calls[c] EXCEPT !.pc = "done", !.ret = VoidRet]
       ELSE IF reportsMutex.queue # <<>> /\ d = Head(reportsMutex.queue)
       THEN [calls[d] EXCEPT !.pc = "locked"]
       ELSE Stepped(c, calls[c])[d]]
  /\ UNCHANGED <<owned, reports, credited, nUpdates>>

Next ==
  \/ \E c \in Calls : FetchReportsCall(c)
  \/ \E c \in Calls : FetchReportBySlugCall(c)
  \/ \E c \in Calls : FetchReportByHCIdCall(c)
  \/ \E c \in Calls : GetReportsCall(c)
  \/ \E c \in Calls, id \in UpdateIds, a \in Amounts :
       UpdateFundedAmountCall(c, id, a)
  \/ \E c \in Calls : ClaimsResponse(c)
  \/ \E c \in Calls, i \in 1..MaxClaims : MetadataResponse(c, i)
  \/ \E c \in Calls, i \in 1..MaxClaims : CMSResponse(c, i)
  \/ \E c \in Calls, i \in 1..MaxClaims : FundingResponse(c, i)
  \/ \E c \in Calls : FetchReportsStore(c)
  \/ \E c \in Calls, slug \in Slugs : FetchReportBySlugResume(c, slug)
  \/ \E c \in Calls, id \in HCIds : FetchReportByHCIdResume(c, id)
  \/ \E c \in Calls : UpdateFundedAmountCritical(c)

Spec == Init /\ [][Next]_vars

\* The claim lists of the behaviours checked for liveness, one of each shape:
\* no claim, one claim with and without an editorial record, two claims with
\* editorial records, two claims of which the first has none.
FairClaimLists ==
  {<<>>, <<"c1">>, <<"c3">>, <<"c1", "c2">>, <<"c3", "c1">>}

\* The initial states of those behaviours.
FairInit == Init /\ owned \in FairClaimLists

\* What the event loop guarantees: a promise reaction that is ready runs.  The
\* continuation of `await reportsMutex.acquire()` runs once the call holds the
\* lock, the continuation of `await Promise.all(...)` once every task has
\* fulfilled.  Nothing is assumed of the remote calls: any of them may never
\* answer.
FairSpec ==
  /\ FairInit
  /\ [][Next]_vars
  /\ \A c \in Calls :
       /\ WF_vars(UpdateFundedAmountCritical(c))
       /\ WF_vars(FetchReportsStore(c))

(* ------------------------------------------------ vocabulary of the claims *)

\* The functions that run fetchReports.
FetchOps == {"fetchReports", "fetchReportBySlug", "fetchReportByHCId"}

\* What fetchReports gave for call record k: to its caller, or to the accessor
\* that awaits it.
Outcome(k) == IF k.op = "fetchReports" THEN k.ret ELSE k.fret

\* fetchReports has settled for call record k.
HasSettled(k) == Outcome(k).kind # "none"

\* The innermost message of an Error.
Root(e) == e[Len(e)]

RECURSIVE SumOf(_, _)
SumOf(S, f) ==
  IF S = {} THEN 0
  ELSE LET x == CHOOSE y \in S : TRUE IN f[x] + SumOf(S \ {x}, f)

\* Total amount of the updates for id that were begun on a cache holding id
\* and have not yet run their critical section.
Pending(id) ==
  LET S == {c \in Calls :
              /\ calls[c].op = "updateFundedAmount"
              /\ calls[c].pc \in {"locked", "waiting"}
              /\ calls[c].arg = id
              /\ calls[c].onCache # NULL
              /\ \E i \in 1..Len(lists[calls[c].onCache]) :
                   lists[calls[c].onCache][i].hypercertId = id}
  IN  SumOf(S, [c \in Calls |-> calls[c].amount])

\* No updateFundedAmount call is in flight.
NoUpdateInFlight ==
  \A c \in Calls : calls[c].pc \notin {"locked", "waiting"}

(* ---------------------------------------------------------------- claims *)

\* C1: a call that runs fetchReports while the cache is populated and the
\* owner address is set settles at once with the cached list itself and
\* issues no remote call (claims, metadata, editorial list, funding amount);
\* when fetchReports itself was called, the cache is still that list.
C1_CachedFetchIsIdempotent ==
  \A c \in Calls :
    (/\ calls[c].op \in FetchOps
     /\ calls[c].env
     /\ calls[c].onCache # NULL)
    => /\ HasSettled(calls[c])
       /\ Outcome(calls[c]) = ListRet(calls[c].onCache)
       /\ calls[c].issued = {}
       /\ calls[c].op = "fetchReports" => reports = calls[c].onCache

\* C1 witness: a fetchReports call has returned the cached list without
\* issuing any remote call.
C1_Witness ==
  \E c \in Calls :
    /\ calls[c].op = "fetchReports"
    /\ calls[c].pc = "done"
    /\ calls[c].ret = ListRet(reports)
    /\ calls[c].issued = {}
    /\ Len(lists[reports]) > 0

\* C2: on a cache populated once (no second list was ever stored) and with
\* every update begun after the population, the fundedSoFar of the first
\* report of an id equals the value it was stored with plus the amounts of
\* all updates begun for that id, less those still waiting to run; so once no
\* update is in flight it is the stored value plus the sum of all amounts.
C2_FundingAccumulates ==
  (Len(lists) = 1 /\ reports = 1 /\ ~built[1].early) =>
     \A id \in UpdateIds :
       \A j \in 1..Len(lists[1]) :
         (/\ lists[1][j].hypercertId = id
          /\ \A i \in 1..(j - 1) : lists[1][i].hypercertId # id)
         => lists[1][j].fundedSoFar =
              built[1].seed[j] + credited[id] - Pending(id)

\* C2 witness: a report stored with 50 holds 125 after three updates of 25
\* (50, +25 gives 75, two more give 125), none in flight any more.
C2_Witness ==
  /\ Len(lists) = 1 /\ reports = 1 /\ ~built[1].early
  /\ NoUpdateInFlight
  /\ Len(lists[1]) > 0
  /\ built[1].seed[1] = 50
  /\ lists[1][1].hypercertId = "c1"
  /\ credited["c1"] = 75
  /\ lists[1][1].fundedSoFar = 125

\* Some claim of the list has a metadata name that no editorial record has
\* as its title.
HasUnmatched(cl) ==
  \E i \in 1..Len(cl) :
    \A j \in 1..Len(CMSReports) : CMSReports[j].title # MetadataName(cl[i])

\* Call record k ran a population attempt that got its claims and started the
\* per-claim tasks, and fetchReports has settled for it.
SettledAttempt(k) ==
  /\ k.op \in FetchOps
  /\ k.env
  /\ k.onCache = NULL
  /\ "metadata" \in k.issued
  /\ HasSettled(k)

\* C3 as stated: when a claim has no editorial match, the population attempt
\* fails with the content-mismatch error.
C3_FailsWithContentMismatch ==
  \A c \in Calls :
    (HasUnmatched(owned) /\ SettledAttempt(calls[c]))
    => Outcome(calls[c]) =
         Throw(<<"FailedToFetchReports", "CMSContentNotFound">>)

\* C3 (amended): when a claim has no editorial match, the population attempt
\* fails, with the content-mismatch error or with the error of a metadata,
\* editorial or funding call of the same attempt that failed first; the cache
\* stays unpopulated; and every call that runs fetchReports with the owner
\* address set on an unpopulated cache fetches from the indexer again.
C3_MismatchFailsTheBatch ==
  /\ HasUnmatched(owned) => reports = NULL /\ lists = <<>>
  /\ \A c \in Calls :
       (HasUnmatched(owned) /\ SettledAttempt(calls[c]))
       => Outcome(calls[c]) \in
            { Throw(<<"FailedToFetchReports", "CMSContentNotFound">>),
              Throw(<<"FailedToFetchReports", "FailedToFetchMetadata",
                      "StorageError">>),
              Throw(<<"FailedToFetchReports", "CMSError">>),
              Throw(<<"FailedToFetchReports", "FundingError">>) }
  /\ \A c \in Calls :
       (calls[c].op \in FetchOps /\ calls[c].env /\ calls[c].onCache = NULL)
       => "claims" \in calls[c].issued

\* C3 witness: fetchReports has failed with the content-mismatch error after
\* another claim's report was resolved, and the cache is unpopulated.
C3_Witness ==
  \E c \in Calls :
    /\ calls[c].op = "fetchReports"
    /\ calls[c].pc = "done"
    /\ calls[c].ret = Throw(<<"FailedToFetchReports", "CMSContentNotFound">>)
    /\ calls[c].issued = {"claims", "metadata", "cms", "funding"}
    /\ reports = NULL

\* Every list ever stored, hence the cache whenever it is populated, holds
\* exactly one report per claim the indexer returned to the attempt that
\* stored it, and was built after every task of the attempt had fulfilled.
NoPartialList ==
  /\ reports \in 0..Len(lists)
  /\ Len(built) = Len(lists)
  /\ \A l \in 1..Len(lists) :
       /\ built[l].claims = owned
       /\ Len(lists[l]) = Len(owned)
       /\ Len(built[l].order) = Len(owned)
       /\ \A id \in ClaimIds :
            Cardinality({i \in 1..Len(lists[l]) : lists[l][i].hypercertId = id})
              = Cardinality({i \in 1..Len(owned) : owned[i] = id})

\* C4: the cache is unpopulated or holds a complete list (one report per claim
\* of its population attempt) in every state, also while a population is
\* pending; a step in which a remote call of a population attempt fails makes
\* that call fail and stores nothing; and a list is stored only by an attempt
\* whose tasks have all fulfilled.
C4_NoPartialCache ==
  /\ []NoPartialList
  /\ [][\A c \in Calls :
          (/\ calls[c].pc \in {"claims", "all"}
           /\ HasSettled(calls'[c])
           /\ Outcome(calls'[c]).kind = "error")
          => reports' = reports /\ lists' = lists]_vars
  /\ [][(reports' # reports \/ lists' # lists) =>
          \/ \E c \in Calls :
               /\ calls[c].pc = "all"
               /\ \A i \in 1..Len(calls[c].tasks) :
                    calls[c].tasks[i].st = "fulfilled"
               /\ Len(lists') = Len(lists) + 1
               /\ reports' = Len(lists')
               /\ Outcome(calls'[c]) = ListRet(reports')
          \/ \E c \in Calls :
               /\ calls[c].pc = "locked"
               /\ reports' = reports
               /\ Len(lists') = Len(lists)]_vars

\* C4 witness: a population is pending with one report resolved and another
\* not, a racing attempt has just failed on a remote call, and the cache is
\* still unpopulated.
C4_Witness ==
  /\ reports = NULL
  /\ \E c, d \in Calls :
       /\ calls[c].pc = "all"
       /\ \E i, j \in 1..Len(calls[c].tasks) :
            /\ calls[c].tasks[i].st = "fulfilled"
            /\ calls[c].tasks[j].st # "fulfilled"
       /\ calls[d].op = "fetchReports"
       /\ calls[d].pc = "done"
       /\ calls[d].ret = Throw(<<"FailedToFetchReports", "FundingError">>)

\* C5 as stated: the cache is populated exactly once, so it only ever holds
\* the first list stored.
C5_PopulatedOnce == reports \in {NULL, 1}

\* C6: the critical section of updateFundedAmount for an id that no cached
\* report has (or on an unpopulated cache) returns normally, leaves the cache
\* and every list exactly as they were, and leaves the mutex released by this
\* call: free, or handed to the next waiting call.
C6_MissingTargetIsNoOp ==
  [][\A c \in Calls :
       (/\ calls[c].pc = "locked"
        /\ calls'[c].pc = "done"
        /\ \/ reports = NULL
           \/ \A i \in 1..Len(lists[reports]) :
                lists[reports][i].hypercertId # calls[c].arg)
       => /\ calls'[c].ret = VoidRet
          /\ reports' = reports
          /\ lists' = lists
          /\ reportsMutex'.holder # c
          /\ \A i \in 1..Len(reportsMutex'.queue) : reportsMutex'.queue[i] # c
          /\ reportsMutex.queue = <<>> => reportsMutex'.holder = 0]_vars

\* C6 witness: an update for an id the populated cache does not hold has
\* returned, and the mutex is free.
C6_Witness ==
  \E c \in Calls :
    /\ calls[c].op = "updateFundedAmount"
    /\ calls[c].pc = "done"
    /\ calls[c].ret = VoidRet
    /\ calls[c].arg = "c9"
    /\ reports # NULL
    /\ Len(lists[reports]) > 0
    /\ reportsMutex.holder = 0

\* C7: getReports returns in the step in which it is called, whatever the
\* mutex and the pending populations are doing: the cached list itself when
\* the cache is populated, an empty sequence when it is not; it issues no
\* remote call and the cache after the call is what it was when it began.
C7_GetReportsIsPureRead ==
  \A c \in Calls :
    calls[c].op = "getReports"
    => /\ calls[c].pc = "done"
       /\ calls[c].issued = {}
       /\ reports = calls[c].onCache
       /\ calls[c].onCache = NULL =>
            calls[c].ret.kind = "empty" /\ Content(calls[c].ret) = <<>>
       /\ calls[c].onCache # NULL =>
            /\ calls[c].ret.kind = "list"
            /\ calls[c].ret.ref = reports
            /\ Content(calls[c].ret) = lists[reports]

\* C7 witness: getReports has returned an empty sequence while a population
\* is pending with a report already resolved, and the cache is unpopulated.
C7_Witness ==
  \E c, d \in Calls :
    /\ calls[c].op = "getReports"
    /\ calls[c].ret = EmptyRet
    /\ calls[d].pc = "all"
    /\ \E i \in 1..Len(calls[d].tasks) : calls[d].tasks[i].st = "fulfilled"
    /\ reports = NULL

\* C7 second witness: getReports has returned the cached list while an
\* update holds the mutex.
C7_WitnessLocked ==
  \E c, d \in Calls :
    /\ calls[c].op = "getReports"
    /\ calls[c].ret.kind = "list"
    /\ calls[d].pc = "locked"
    /\ reportsMutex.holder = d

\* C8: a call that runs fetchReports while the owner address is not set
\* fails at once with the configuration error and issues no remote call,
\* whether or not the cache is populated; fetchReports leaves the cache as it
\* was; fetchReportBySlug and fetchReportByHCId fail with that error wrapped.
C8_OwnerAddressRequired ==
  \A c \in Calls :
    (calls[c].op \in FetchOps /\ ~calls[c].env)
    => /\ HasSettled(calls[c])
       /\ Outcome(calls[c]) = Throw(<<"OwnerAddressNotSet">>)
       /\ calls[c].issued = {}
       /\ calls[c].op = "fetchReports" => reports = calls[c].onCache
       /\ (calls[c].op # "fetchReports" /\ calls[c].pc = "done") =>
            /\ calls[c].ret.kind = "error"
            /\ Root(calls[c].ret.err) = "OwnerAddressNotSet"

\* C8 witness: with the cache populated, fetchReportBySlug has failed with
\* the configuration error.
C8_Witness ==
  \E c \in Calls :
    /\ calls[c].op = "fetchReportBySlug"
    /\ calls[c].pc = "done"
    /\ calls[c].onCache # NULL
    /\ reports # NULL
    /\ calls[c].ret =
         Throw(<<"FailedToGetReportBySlug", "OwnerAddressNotSet">>)

\* C9: every stored list is in the order of the claims the indexer returned:
\* its i-th report is built from the i-th claim, whatever the order in which
\* the per-claim tasks completed.
C9_PopulationOrder ==
  \A l \in 1..Len(lists) :
    /\ Len(lists[l]) = Len(built[l].claims)
    /\ \A i \in 1..Len(lists[l]) :
         /\ lists[l][i].hypercertId = built[l].claims[i]
         /\ lists[l][i].title = MetadataName(built[l].claims[i])

\* C9 witness: the cache holds the reports of two different claims whose
\* tasks completed in the reverse of the claim order.
C9_Witness ==
  /\ reports # NULL
  /\ Len(lists[reports]) = 2
  /\ lists[reports][1].hypercertId # lists[reports][2].hypercertId
  /\ built[reports].order = <<2, 1>>

\* The innermost messages of the two not-found errors.
NotFoundRoots == {"SlugNotFound", "HCIdNotFound"}

\* C10: an accessor that resumes with the populated list and finds no report
\* of its key fails with its not-found error; an accessor that resumes with a
\* configuration, remote or content error fails with that error wrapped, never
\* with a not-found error; the lookup step changes neither the cache nor any
\* list, and the cache stays populated.
C10_LookupMiss ==
  /\ [](\A c \in Calls :
          (calls[c].pc = "done" /\ calls[c].op \in FetchOps \ {"fetchReports"})
          => /\ (/\ calls[c].fret.kind = "list"
                 /\ calls[c].op = "fetchReportBySlug"
                 /\ \A i \in 1..Len(lists[calls[c].fret.ref]) :
                      lists[calls[c].fret.ref][i].slug # calls[c].arg)
                => /\ calls[c].ret =
                        Throw(<<"FailedToGetReportBySlug", "SlugNotFound">>)
                   /\ reports # NULL
             /\ (/\ calls[c].fret.kind = "list"
                 /\ calls[c].op = "fetchReportByHCId"
                 /\ \A i \in 1..Len(lists[calls[c].fret.ref]) :
                      lists[calls[c].fret.ref][i].hypercertId # calls[c].arg)
                => /\ calls[c].ret =
                        Throw(<<"FailedToGetReportByHCId", "HCIdNotFound">>)
                   /\ reports # NULL
             /\ calls[c].fret.kind = "error"
                => /\ calls[c].ret.kind = "error"
                   /\ Root(calls[c].ret.err) = Root(calls[c].fret.err)
                   /\ Root(calls[c].ret.err) \notin NotFoundRoots)
  /\ [][\A c \in Calls :
          (calls[c].pc = "lookup" /\ calls'[c].pc = "done")
          => reports' = reports /\ lists' = lists]_vars

\* C10 witness: on a populated cache fetchReportBySlug has failed with the
\* not-found error and the cache still holds its list.
C10_Witness ==
  \E c \in Calls :
    /\ calls[c].op = "fetchReportBySlug"
    /\ calls[c].pc = "done"
    /\ calls[c].onCache # NULL
    /\ calls[c].ret = Throw(<<"FailedToGetReportBySlug", "SlugNotFound">>)
    /\ reports = calls[c].fret.ref
    /\ Len(lists[reports]) > 0

\* A step in which the population attempt of call c ends by giving a list.
StoreStep(c) ==
  /\ calls[c].pc = "all"
  /\ HasSettled(calls'[c])
  /\ Outcome(calls'[c]).kind = "list"

\* C11: every call that runs fetchReports with the owner address set while the
\* cache is unpopulated passes the cache check and asks the indexer for the
\* claims, whether or not another population is pending (duplicate fetch);
\* and every population attempt that ends well stores a new list object of
\* its own, makes it the cache whatever the cache held (the last store wins)
\* and gives that list to its caller.
C11_UnsynchronizedFirstPopulation ==
  /\ [](\A c \in Calls :
          (calls[c].op \in FetchOps /\ calls[c].env /\ calls[c].onCache = NULL)
          => "claims" \in calls[c].issued)
  /\ [][\A c \in Calls :
          StoreStep(c)
          => /\ Len(lists') = Len(lists) + 1
             /\ reports' = Len(lists')
             /\ reports' # reports
             /\ Outcome(calls'[c]) = ListRet(reports')
             /\ \A l \in 1..Len(lists) : lists'[l] = lists[l]]_vars

\* C11 witness: two calls began on the unpopulated cache and both fetched;
\* the first stored list 1 and got it, the second stored list 2 and got it,
\* and the cache holds list 2.
C11_Witness ==
  /\ reports = 2
  /\ \E c, d \in Calls :
       /\ calls[c].op = "fetchReportBySlug"
       /\ calls[c].pc = "lookup"
       /\ calls[c].onCache = NULL
       /\ calls[c].fret = ListRet(1)
       /\ "funding" \in calls[c].issued
       /\ calls[d].op = "fetchReports"
       /\ calls[d].pc = "done"
       /\ calls[d].onCache = NULL
       /\ calls[d].ret = ListRet(2)
       /\ "funding" \in calls[d].issued

\* C12: the store of a population attempt neither takes nor waits for the
\* mutex; the list it makes the cache holds, for every report, only the amount
\* its funding lookup answered, so no increment made on the list it replaces;
\* the replaced list keeps its increments but is no longer the cache; and an
\* update writes only to the list that is the cache when its critical section
\* runs.  Hence the increment of an update that completed on the first list is
\* absent from the cache once a second attempt has stored.
C12_RefreshDuringUpdateLosesFunding ==
  /\ [][\A c \in Calls :
          StoreStep(c)
          => /\ reportsMutex' = reportsMutex
             /\ reports' = Len(lists) + 1
             /\ Len(lists'[reports']) = Len(calls[c].tasks)
             /\ \A i \in 1..Len(calls[c].tasks) :
                  lists'[reports'][i].fundedSoFar =
                    calls[c].tasks[i].report.fundedSoFar
             /\ \A l \in 1..Len(lists) : lists'[l] = lists[l]]_vars
  /\ [][\A c \in Calls :
          (calls[c].pc = "locked" /\ calls'[c].pc = "done")
          => \A l \in 1..Len(lists) : l # reports => lists'[l] = lists[l]]_vars

\* C12 witness: two updates of 25 were begun for c1 on list 1; one completed
\* (list 1 holds 75), the other holds the mutex; meanwhile a second attempt
\* stored list 2, and the cache holds 50 for c1, without the completed
\* update's amount.
C12_Witness ==
  /\ reports = 2
  /\ nUpdates = 2
  /\ credited["c1"] = 50
  /\ lists[1] # <<>> /\ lists[2] # <<>>
  /\ lists[1][1].hypercertId = "c1"
  /\ lists[1][1].fundedSoFar = 75
  /\ lists[2][1].hypercertId = "c1"
  /\ lists[2][1].fundedSoFar = 50
  /\ \E c \in Calls :
       /\ calls[c].op = "updateFundedAmount"
       /\ calls[c].pc = "locked"
       /\ calls[c].arg = "c1"
       /\ calls[c].onCache = 1
       /\ reportsMutex.holder = c
  /\ \A c \in Calls : calls[c].pc # "waiting"

\* The calls of updateFundedAmount in flight.
UpdatesInFlight == {c \in Calls : calls[c].pc \in {"locked", "waiting"}}

\* At most one update is inside the critical section, and it is the holder of
\* the lock; the queue of the lock is exactly the waiting updates, each once;
\* the lock is free whenever no update is in flight.
MutexDiscipline ==
  /\ Cardinality({c \in Calls : calls[c].pc = "locked"}) <= 1
  /\ \A c \in Calls : calls[c].pc = "locked" <=> reportsMutex.holder = c
  /\ \A c \in Calls :
       calls[c].pc = "waiting" <=>
         \E i \in 1..Len(reportsMutex.queue) : reportsMutex.queue[i] = c
  /\ Len(reportsMutex.queue) = Cardinality({c \in Calls : calls[c].pc = "waiting"})
  /\ reportsMutex.holder = 0 => reportsMutex.queue = <<>>
  /\ UpdatesInFlight = {} => reportsMutex = [holder |-> 0, queue |-> <<>>]

\* C13: the mutex discipline holds in every state; the step that ends a
\* critical section, whether or not it found a report, releases the lock (to
\* the first waiting update if there is one); and every update in flight
\* eventually returns, whatever the populations do (they get no fairness: any
\* of them may stall for ever).
C13_MutexDiscipline ==
  /\ []MutexDiscipline
  /\ [][\A c \in Calls :
          (calls[c].pc = "locked" /\ calls'[c].pc = "done")
          => /\ reportsMutex'.holder # c
             /\ calls'[c].ret = VoidRet
             /\ reportsMutex.queue # <<>> =>
                  /\ reportsMutex'.holder = Head(reportsMutex.queue)
                  /\ reportsMutex'.queue = Tail(reportsMutex.queue)
             /\ reportsMutex.queue = <<>> => reportsMutex'.holder = 0]_vars
  /\ \A c \in Calls :
       (calls[c].pc \in {"locked", "waiting"})
         ~> (calls[c].pc = "done" /\ calls[c].ret = VoidRet)

\* C13 witness: an update has just left its critical section and released the
\* lock, which went to the update that was waiting behind it; that one is now
\* the only call inside.
C13_Witness ==
  \E c, d \in Calls :
    /\ calls[d].op = "updateFundedAmount"
    /\ calls[d].pc = "done"
    /\ calls[d].ret = VoidRet
    /\ calls[c].op = "updateFundedAmount"
    /\ calls[c].pc = "locked"
    /\ reportsMutex = [holder |-> c, queue |-> <<>>]

\* Call record k is an accessor called with the owner address set while the
\* cache was unpopulated.
AccessorOnEmpty(k) ==
  /\ k.op \in {"fetchReportBySlug", "fetchReportByHCId"}
  /\ k.env
  /\ k.onCache = NULL

\* C14 as stated: an accessor called on the unpopulated cache runs the whole
\* population (it asks the indexer); once the population has given it a list
\* the cache is populated, whatever the lookup finds; when the population
\* failed the accessor fails and the cache is unpopulated; and a Report it
\* returns is the element of the cached list that has the key asked for.
C14_AccessorsTriggerPopulation ==
  \A c \in Calls :
    AccessorOnEmpty(calls[c])
    => /\ "claims" \in calls[c].issued
       /\ calls[c].fret.kind = "list" => reports # NULL
       /\ (calls[c].pc = "done" /\ calls[c].fret.kind = "error")
            => calls[c].ret.kind = "error" /\ reports = NULL
       /\ (calls[c].pc = "done" /\ calls[c].ret.kind = "report")
            => /\ calls[c].ret.ref = reports
               /\ calls[c].ret.idx \in 1..Len(lists[reports])
               /\ calls[c].op = "fetchReportBySlug" =>
                    lists[reports][calls[c].ret.idx].slug = calls[c].arg
               /\ calls[c].op = "fetchReportByHCId" =>
                    lists[reports][calls[c].ret.idx].hypercertId = calls[c].arg

\* The remote call of task i of call c is answered (with data or a failure).
Answers(c, i) ==
  MetadataResponse(c, i) \/ CMSResponse(c, i) \/ FundingResponse(c, i)

\* A remote call awaited by call c is answered.
Responds(c) == ClaimsResponse(c) \/ \E i \in 1..MaxClaims : Answers(c, i)

\* The remote calls are eventually answered: a call that keeps waiting for
\* remote calls gets an answer to one of them.  (An awaited remote call stays
\* awaited until it is answered or the call fails, so this follows from every
\* remote call being eventually answered.)
RemoteCallsRespond == \A c \in Calls : WF_vars(Responds(c))

\* The population of call slot c is pending.
Populating(c) == calls[c].pc \in {"claims", "all"}

C16_FrameOfUpdate ==
  [][\A c \in Calls :
       (/\ calls[c].pc = "locked"
        /\ calls'[c].pc = "done"
        /\ reports # NULL
        /\ \E i \in 1..Len(lists[reports]) :
             lists[reports][i].hypercertId = calls[c].arg)
       => /\ reports' = reports
          /\ Len(lists') = Len(lists)
          /\ \A l \in 1..Len(lists) : l # reports => lists'[l] = lists[l]
          /\ Len(lists'[reports]) = Len(lists[reports])
          /\ \E j \in 1..Len(lists[reports]) :
               /\ lists[reports][j].hypercertId = calls[c].arg
               /\ \A i \in 1..(j - 1) :
                    lists[reports][i].hypercertId # calls[c].arg
               /\ lists'[reports][j] =
                    [lists[reports][j] EXCEPT
                       !.fundedSoFar = @ + calls[c].amount]
               /\ \A i \in 1..Len(lists[reports]) :
                    i # j => lists'[reports][i] = lists[reports][i]]_vars

\* C16 witness: the cache holds two reports of the same id c1, both stored
\* with 50; an update of 25 for c1 has returned; the first holds 75 and the
\* second still 50.
C16_Witness ==
  /\ reports # NULL
  /\ Len(lists[reports]) = 2
  /\ lists[reports][1].hypercertId = "c1"
  /\ lists[reports][2].hypercertId = "c1"
  /\ lists[reports][1].fundedSoFar = 75
  /\ lists[reports][2].fundedSoFar = 50
  /\ lists[reports][1].slug = lists[reports][2].slug
  /\ \E c \in Calls :
       /\ calls[c].op = "updateFundedAmount"
       /\ calls[c].pc = "done"
       /\ calls[c].arg = "c1"
       /\ calls[c].ret = VoidRet

\* C17 as stated: the amount of an update called while the cache is
\* unpopulated is dropped: its critical section changes no report.
C17_AmountIsDropped ==
  [][\A c \in Calls :
       (/\ calls[c].pc = "locked"
        /\ calls'[c].pc = "done"
        /\ calls[c].onCache = NULL)
       => lists' = lists]_vars

\* As long as no update was begun on a cache holding its id and no update
\* begun on the unpopulated cache ran its critical section on list l, every
\* report of l holds the amount its funding lookup answered.
UpdatesDropped ==
  \A l \in 1..Len(lists) :
    ((\A id \in UpdateIds : credited[id] = 0) /\ ~built[l].early)
    => \A i \in 1..Len(lists[l]) :
         /\ lists[l][i].fundedSoFar = built[l].seed[i]
         /\ built[l].seed[i] \in FundedAmounts

\* C17 (amended): updateFundedAmount issues no remote call and no step of it
\* changes which list is the cache or stores a list, so it never populates the
\* cache; a critical section that runs while the cache is unpopulated changes
\* nothing and returns normally; and a list stored by a later population
\* holds only the amounts of the funding lookups, the dropped amounts nowhere.
C17_UpdateBeforePopulation ==
  /\ [](\A c \in Calls :
          calls[c].op = "updateFundedAmount" => calls[c].issued = {})
  /\ []UpdatesDropped
  /\ [][\A c \in Calls :
          (calls'[c].op = "updateFundedAmount" /\ calls'[c] # calls[c])
          => reports' = reports /\ Len(lists') = Len(lists)]_vars
  /\ [][\A c \in Calls :
          (calls[c].pc = "locked" /\ calls'[c].pc = "done" /\ reports = NULL)
          => /\ lists' = lists
             /\ reports' = NULL
             /\ calls'[c].ret = VoidRet]_vars

\* C17 witness: an update of 25 for c1, called while the first population was
\* pending, has returned; the cache is still unpopulated and the pending
\* population holds the report of c1 with the 50 of its funding lookup.
C17_Witness ==
  /\ reports = NULL
  /\ \E c, d \in Calls :
       /\ calls[c].op = "updateFundedAmount"
       /\ calls[c].pc = "done"
       /\ calls[c].arg = "c1"
       /\ calls[c].amount = 25
       /\ calls[c].ret = VoidRet
       /\ calls[d].pc = "all"
       /\ Len(calls[d].tasks) = 1
       /\ calls[d].tasks[1].st = "fulfilled"
       /\ calls[d].tasks[1].report.hypercertId = "c1"
       /\ calls[d].tasks[1].report.fundedSoFar = 50

\* C18: when the indexer holds no claim, a population asks only the indexer
\* and what it stores is an empty list, which makes the cache populated; a
\* call that runs fetchReports with the owner address set on that cache gets
\* the cached empty list and issues no remote call, whereas on the unpopulated
\* cache it asks the indexer; getReports gives an empty sequence in both
\* states: the cached list itself when populated, a fresh array when not.
C18_EmptyPopulationIsCached ==
  owned = <<>> =>
    /\ \A l \in 1..Len(lists) : lists[l] = <<>>
    /\ \A c \in Calls :
         (calls[c].op \in FetchOps /\ calls[c].env)
         => /\ calls[c].onCache = NULL =>
                 /\ calls[c].issued = {"claims"}
                 /\ Outcome(calls[c]).kind = "list" =>
                      /\ reports # NULL
                      /\ lists[Outcome(calls[c]).ref] = <<>>
            /\ calls[c].onCache # NULL =>
                 /\ calls[c].issued = {}
                 /\ Outcome(calls[c]) = ListRet(calls[c].onCache)
                 /\ lists[calls[c].onCache] = <<>>
    /\ \A c \in Calls :
         calls[c].op = "getReports"
         => /\ Content(calls[c].ret) = <<>>
            /\ calls[c].onCache = NULL => calls[c].ret = EmptyRet
            /\ calls[c].onCache # NULL =>
                 calls[c].ret = ListRet(calls[c].onCache)

\* C18 witness: the cache is populated with an empty list and a fetchReports
\* call made on it has returned that list without any remote call.
C18_Witness ==
  /\ owned = <<>>
  /\ reports # NULL
  /\ lists[reports] = <<>>
  /\ \E c \in Calls :
       /\ calls[c].op = "fetchReports"
       /\ calls[c].pc = "done"
       /\ calls[c].onCache = reports
       /\ calls[c].ret = ListRet(reports)
       /\ calls[c].issued = {}

====
